---- MODULE Spec2Model ----
(***************************************************************************)
(* fern-uring ring buffer: the producer (tail side) and consumer (head     *)
(* side) halves of one ring, with two-stage reserve / commit.              *)
(*                                                                         *)
(* Every atomic memory operation of reserve() and commit() is one step, so *)
(* the interleavings of threads sharing one RingBufferProducer and one     *)
(* RingBufferConsumer are the behaviours of the model.  Atomics are        *)
(* sequentially consistent here: a load returns the latest value.          *)
(*                                                                         *)
(* A u32 is kept at its full width as two 16-bit limbs <<hi, lo>>.         *)
(***************************************************************************)
EXTENDS Integers, Sequences, FiniteSets

(***************************************************************************)
(* Bounds of the model                                                     *)
(***************************************************************************)
\* Reservations a side may be granted (or have in flight) in one behaviour.
MaxOps == 3

\* Threads sharing the one producer instance and the one consumer instance.
Producers == {"p1", "p2"}
Consumers == {"c1", "c2"}
Threads == Producers \cup Consumers

\* entries.len() of the rings explored (all pass new_internal's checks).
Lens == {1, 2}

(***************************************************************************)
(* u32 arithmetic                                                          *)
(***************************************************************************)
\* One limb of a u32: 2^16.
Limb == 65536

U32Zero == <<0, 0>>
U32Max == <<Limb - 1, Limb - 1>>

\* The u32 of a small natural n (n < Limb).
U32Of(n) == <<0, n>>

\* Mutant of WrappingAdd: the counter moves by one more than asked.
WrappingAdd_OneMore(a, n) ==
    LET lo == a[2] + n + 1
    IN  IF lo >= Limb THEN <<(a[1] + 1) % Limb, lo - Limb>> ELSE <<a[1], lo>>

\* a.wrapping_add(n), n < Limb; what AtomicU32::fetch_add(n) stores.
WrappingAdd(a, n) ==
    LET lo == a[2] + n
    IN  IF lo >= Limb THEN <<(a[1] + 1) % Limb, lo - Limb>> ELSE <<a[1], lo>>

\* a.wrapping_sub(b)
WrappingSub(a, b) ==
    LET borrow == IF a[2] < b[2] THEN 1 ELSE 0
    IN  <<(a[1] - b[1] - borrow + Limb) % Limb, a[2] - b[2] + borrow * Limb>>

\* (d as usize) >= n, for a length n < Limb
UsizeGe(d, n) == d[1] > 0 \/ d[2] >= n

\* x & y on naturals
RECURSIVE BitAnd(_, _)
BitAnd(x, y) ==
    IF x = 0 \/ y = 0 THEN 0
    ELSE (x % 2) * (y % 2) + 2 * BitAnd(x \div 2, y \div 2)

\* Mutant of SlotOf: the top bit of the mask is dropped.
SlotOf_HalfMask(index, m, s) == BitAnd(index[2], m \div 2) * (2 ^ s)

\* ((index & mask) << shift) as usize, the position in entries (0-based).
\* mask < Limb, so the high limb of index is masked away.
SlotOf(index, m, s) == BitAnd(index[2], m) * (2 ^ s)

\* entries[pos]: the bounds check of slice indexing
InBounds(pos, len) == pos < len

\* `x + 1` on a u32: overflows at u32::MAX
AddOverflows(x) == x = U32Max

\* Mutant of CompareExchange: the failed exchange stores the new value too.
CompareExchange_StoresOnFailure(value, current, new) ==
    [ok |-> value = current, value |-> new]

\* Mutant of CompareExchange: a plain store that never fails.
CompareExchange_Blind(value, current, new) == [ok |-> TRUE, value |-> new]

\* AtomicU32::compare_exchange(current, new): the stored value and whether it
\* succeeded.
CompareExchange(value, current, new) ==
    IF value = current THEN [ok |-> TRUE, value |-> new]
    ELSE [ok |-> FALSE, value |-> value]

(***************************************************************************)
(* State                                                                   *)
(***************************************************************************)
VARIABLES
    entries,            \* the shared slice (its length is what matters)
    mask,               \* the validated mask, entries.len() - 1
    shift,              \* 0 (new) or 1 (new_big)
    overflow_checks,    \* the build: TRUE panics on u32 overflow of `+`
    head,               \* shared AtomicU32
    tail,               \* shared AtomicU32
    uncommitted_tail,   \* the producer instance's shadow counter
    uncommitted_head,   \* the consumer instance's shadow counter
    uncommitted_tail_b, \* the shadow counter of a second producer instance
    uncommitted_head_b, \* the shadow counter of a second consumer instance
    instance,           \* the instance each thread calls: "a" or "b"
    built,              \* the latest call of a constructor and its result
    written,            \* history: producer handles whose slot was written through them
    params,             \* the Params value of a builder chain, and the latest call
    pc,                 \* each thread's position
    local,              \* each thread's locals: head, tail, entry, and what
                        \* empty() returned to it right before
    last,               \* the call that returned in the latest step, if one did
    p_held,             \* handles returned by Producer.reserve, not yet passed to commit
    c_held,             \* handles returned by Consumer.reserve, not yet passed to commit
    p_granted,          \* history: handles Producer.reserve returned, in order
    c_granted,          \* history: handles Consumer.reserve returned, in order
    p_committed,        \* history: handles whose Producer.commit returned Ok, in order
    c_committed,        \* history: handles whose Consumer.commit returned Ok, in order
    head0,              \* head at construction
    tail0               \* tail at construction

ring == <<entries, mask, shift, overflow_checks, head0, tail0, instance, built,
          written, params>>
counters == <<head, tail, uncommitted_tail, uncommitted_head,
              uncommitted_tail_b, uncommitted_head_b>>
history == <<p_granted, c_granted, p_committed, c_committed>>
vars == <<entries, mask, shift, overflow_checks, head, tail, uncommitted_tail,
          uncommitted_head, uncommitted_tail_b, uncommitted_head_b, instance,
          built, written, params, pc, local, last, p_held, c_held, p_granted, c_granted,
          p_committed, c_committed, head0, tail0>>

\* No value loaded / no handle.
NoU32 == <<>>
NoEntry == [index |-> NoU32, entry |-> 0, id |-> 0]
NoLocals == [head |-> NoU32, tail |-> NoU32, entry |-> NoEntry, empty |-> ""]
NoCall == [thread |-> "", call |-> "", result |-> "", entry |-> NoEntry,
           value |-> NoU32]
\* Params::default(): io_uring_params with no flag and every field zero.
ParamsDefault ==
    [flags |-> {}, sq_entries |-> U32Zero, cq_entries |-> U32Zero,
     sq_thread_cpu |-> U32Zero, sq_thread_idle |-> U32Zero, wq_fd |-> 0]
\* No Params yet: `call` is the latest call of the chain, `arg` its argument,
\* `calls` the number of builder calls so far, `value` the Params.
NoParams == [call |-> "", arg |-> NoU32, calls |-> 0, panicked |-> FALSE,
             value |-> ParamsDefault]
NoBuilt == [call |-> "", len |-> NoU32, mask |-> NoU32, shift |-> 0, result |-> "",
            value |-> NoU32]

\* ReservedEntry::new(index, entry); id is the position in the side's history.
ReservedEntry(index, pos, n) == [index |-> index, entry |-> pos, id |-> n]

(***************************************************************************)
(* Construction                                                            *)
(***************************************************************************)
\* A slice of n entries.
Slice(n) == [i \in 1..n |-> 0]

\* The values head may have when the instances are built: far from the wrap
\* of the u32 and right before it.
HeadStarts == {U32Zero, WrappingSub(U32Max, U32Of(1))}

\* The state after RingBufferProducer::new / new_big and
\* RingBufferConsumer::new / new_big returned Ok over the same entries, head
\* and tail: the mask passed validation, and each shadow counter was read
\* from the counter it shadows.  tail - head is within [0, entries.len()].
Fresh ==
    /\ head = head0
    /\ tail = tail0
    /\ uncommitted_tail = tail
    /\ uncommitted_head = head
    /\ uncommitted_tail_b = tail
    /\ uncommitted_head_b = head
    /\ built = NoBuilt
    /\ written = {}
    /\ params = NoParams
    /\ pc = [t \in Threads |-> "idle"]
    /\ local = [t \in Threads |-> NoLocals]
    /\ last = NoCall
    /\ p_held = {}
    /\ c_held = {}
    /\ p_granted = <<>>
    /\ c_granted = <<>>
    /\ p_committed = <<>>
    /\ c_committed = <<>>

\* One producer instance and one consumer instance, shared by the threads.
OneEach == [t \in Threads |-> "a"]

Init ==
    /\ entries \in {Slice(n) : n \in Lens}
    /\ mask = Len(entries) - 1
    /\ shift \in {0, 1}
    /\ overflow_checks \in BOOLEAN
    /\ head0 \in HeadStarts
    /\ tail0 \in {WrappingAdd(head0, k) : k \in 0..Len(entries)}
    /\ instance = OneEach
    /\ Fresh

\* `call` returns `r` (for `e`, the handle returned or passed in) to thread t;
\* its locals die.
Return(t, call, r, e) ==
    /\ pc' = [pc EXCEPT ![t] = "idle"]
    /\ local' = [local EXCEPT ![t] = NoLocals]
    /\ last' = [thread |-> t, call |-> call, result |-> r, entry |-> e,
                value |-> NoU32]

\* A step inside a call: thread t moves to `at` with locals `l`.
Goto(t, at, l) ==
    /\ pc' = [pc EXCEPT ![t] = at]
    /\ local' = [local EXCEPT ![t] = l]
    /\ last' = NoCall

\* A panic in `call` unwinds thread t; the other threads go on.
Panic(t, call) ==
    /\ pc' = [pc EXCEPT ![t] = "panicked"]
    /\ local' = [local EXCEPT ![t] = NoLocals]
    /\ last' = [thread |-> t, call |-> call, result |-> "panic", entry |-> NoEntry,
                value |-> NoU32]

\* `call` returns the u32 `v` to thread t.
ReturnValue(t, call, v) ==
    /\ pc' = [pc EXCEPT ![t] = "idle"]
    /\ local' = [local EXCEPT ![t] = NoLocals]
    /\ last' = [thread |-> t, call |-> call, result |-> "u32", entry |-> NoEntry,
                value |-> v]

\* The shadow counter of the instance thread t calls, and a store to it.
ProducerShadow(t) ==
    IF instance[t] = "a" THEN uncommitted_tail ELSE uncommitted_tail_b

StoreProducerShadow(t, v) ==
    IF instance[t] = "a"
    THEN uncommitted_tail' = v /\ UNCHANGED uncommitted_tail_b
    ELSE uncommitted_tail_b' = v /\ UNCHANGED uncommitted_tail

ConsumerShadow(t) ==
    IF instance[t] = "a" THEN uncommitted_head ELSE uncommitted_head_b

StoreConsumerShadow(t, v) ==
    IF instance[t] = "a"
    THEN uncommitted_head' = v /\ UNCHANGED uncommitted_head_b
    ELSE uncommitted_head_b' = v /\ UNCHANGED uncommitted_head

(***************************************************************************)
(* RingBufferProducer                                                      *)
(***************************************************************************)
\* Mutant of ProducerFull: one slot is always kept free.
ProducerFull_OneSpare(l_tail, l_head, len) ==
    UsizeGe(WrappingSub(l_tail, l_head), len - 1)

\* Mutant of ProducerFull: `>` for `>=`.
ProducerFull_OffByOne(l_tail, l_head, len) ==
    UsizeGe(WrappingSub(l_tail, l_head), len + 1)

\* reserve: `tail.wrapping_sub(head) as usize >= self.entries.len()`
ProducerFull(l_tail, l_head, len) == UsizeGe(WrappingSub(l_tail, l_head), len)

\* Mutant of ProducerOutOfOrder: the order test left out.
ProducerOutOfOrder_Never(index, l_tail) == FALSE

\* commit: `entry.index != self.tail.load(Acquire)`
ProducerOutOfOrder(index, l_tail) == index # l_tail

\* reserve, first load: `let head = self.head.load(Acquire)`
ProducerReserveLoadHead(t) ==
    /\ pc[t] = "idle"
    /\ Goto(t, "p_reserve_tail", [local[t] EXCEPT !.head = head])
    /\ UNCHANGED <<ring, counters, history, p_held, c_held>>

\* reserve, second load and the fullness test:
\* `let tail = self.uncommitted_tail.load(Acquire)`, then None when full.
ProducerReserveLoadTail(t) ==
    /\ pc[t] = "p_reserve_tail"
    /\ IF ProducerFull(ProducerShadow(t), local[t].head, Len(entries))
       THEN Return(t, "Producer.reserve", "None", NoEntry)
       ELSE Goto(t, "p_reserve_cas", [local[t] EXCEPT !.tail = ProducerShadow(t)])
    /\ UNCHANGED <<ring, counters, history, p_held, c_held>>

\* reserve, the slot lookup, `tail + 1` and the compare_exchange.
ProducerReserveCas(t) ==
    /\ pc[t] = "p_reserve_cas"
    /\ LET l_tail == local[t].tail
           pos == SlotOf(l_tail, mask, shift)
           cas == CompareExchange(ProducerShadow(t), l_tail, WrappingAdd(l_tail, 1))
           e == ReservedEntry(l_tail, pos, Len(p_granted) + 1)
       IN  IF ~InBounds(pos, Len(entries)) \/ (overflow_checks /\ AddOverflows(l_tail))
           THEN /\ Panic(t, "Producer.reserve")
                /\ UNCHANGED <<uncommitted_tail, uncommitted_tail_b, p_held, p_granted>>
           ELSE /\ StoreProducerShadow(t, cas.value)
                /\ IF cas.ok
                   THEN /\ Return(t, "Producer.reserve", "Some", e)
                        /\ p_held' = p_held \cup {e}
                        /\ p_granted' = Append(p_granted, e)
                   ELSE /\ Return(t, "Producer.reserve", "None", NoEntry)
                        /\ UNCHANGED <<p_held, p_granted>>
    /\ UNCHANGED <<ring, head, tail, uncommitted_head, uncommitted_head_b, c_held,
                   c_granted, p_committed, c_committed>>

\* commit(entry), the load and the order test.  The handle is moved into the
\* call: it is gone whether commit returns Ok or Err.
ProducerCommitLoad(t, e) ==
    /\ pc[t] = "idle"
    /\ e \in p_held
    /\ p_held' = p_held \ {e}
    /\ IF ProducerOutOfOrder(e.index, tail)
       THEN Return(t, "Producer.commit", "CommitOutOfOrder", e)
       ELSE Goto(t, "p_commit_add", [local[t] EXCEPT !.entry = e])
    /\ UNCHANGED <<ring, counters, history, c_held>>

\* Mutant of ProducerCommitFetchAdd: the producer publishes on the wrong
\* counter.
ProducerCommitFetchAdd_Head(t) ==
    /\ pc[t] = "p_commit_add"
    /\ head' = WrappingAdd(head, 1)
    /\ p_committed' = Append(p_committed, local[t].entry)
    /\ Return(t, "Producer.commit", "Ok", local[t].entry)
    /\ UNCHANGED <<ring, tail, uncommitted_tail, uncommitted_head,
                   uncommitted_tail_b, uncommitted_head_b, p_held, c_held,
                   p_granted, c_granted, c_committed>>

\* commit, `self.tail.fetch_add(1, Release); Ok(())`
ProducerCommitFetchAdd(t) ==
    /\ pc[t] = "p_commit_add"
    /\ tail' = WrappingAdd(tail, 1)
    /\ p_committed' = Append(p_committed, local[t].entry)
    /\ Return(t, "Producer.commit", "Ok", local[t].entry)
    /\ UNCHANGED <<ring, head, uncommitted_tail, uncommitted_head,
                   uncommitted_tail_b, uncommitted_head_b, p_held, c_held,
                   p_granted, c_granted, c_committed>>

\* Mutant of ConsumerNothing: the emptiness test left out.
ConsumerNothing_Never(l_head, l_tail) == FALSE

(***************************************************************************)
(* RingBufferConsumer                                                      *)
(***************************************************************************)
\* Mutant of ConsumerNothing: the test inverted.
ConsumerNothing_Inverted(l_head, l_tail) == l_head # l_tail

\* reserve: `head == tail`
ConsumerNothing(l_head, l_tail) == l_head = l_tail

\* Mutant of ConsumerOutOfOrder: the order test left out.
ConsumerOutOfOrder_Never(index, l_head) == FALSE

\* Mutant of ConsumerOutOfOrder: the test looks one index ahead.
ConsumerOutOfOrder_Ahead(index, l_head) == index # WrappingAdd(l_head, 1)

\* commit: `entry.index != self.head.load(Acquire)`
ConsumerOutOfOrder(index, l_head) == index # l_head

\* reserve, first load: `let head = self.uncommitted_head.load(Acquire)`
ConsumerReserveLoadHead(t) ==
    /\ pc[t] = "idle"
    /\ Goto(t, "c_reserve_tail", [local[t] EXCEPT !.head = ConsumerShadow(t)])
    /\ UNCHANGED <<ring, counters, history, p_held, c_held>>

\* reserve, second load and the emptiness test:
\* `let tail = self.tail.load(Acquire)`, then None when head == tail.
ConsumerReserveLoadTail(t) ==
    /\ pc[t] = "c_reserve_tail"
    /\ IF ConsumerNothing(local[t].head, tail)
       THEN Return(t, "Consumer.reserve", "None", NoEntry)
       ELSE Goto(t, "c_reserve_cas", [local[t] EXCEPT !.tail = tail])
    /\ UNCHANGED <<ring, counters, history, p_held, c_held>>

\* reserve, the slot lookup, `head + 1` and the compare_exchange.
ConsumerReserveCas(t) ==
    /\ pc[t] = "c_reserve_cas"
    /\ LET l_head == local[t].head
           pos == SlotOf(l_head, mask, shift)
           cas == CompareExchange(ConsumerShadow(t), l_head, WrappingAdd(l_head, 1))
           e == ReservedEntry(l_head, pos, Len(c_granted) + 1)
       IN  IF ~InBounds(pos, Len(entries)) \/ (overflow_checks /\ AddOverflows(l_head))
           THEN /\ Panic(t, "Consumer.reserve")
                /\ UNCHANGED <<uncommitted_head, uncommitted_head_b, c_held, c_granted>>
           ELSE /\ StoreConsumerShadow(t, cas.value)
                /\ IF cas.ok
                   THEN /\ Return(t, "Consumer.reserve", "Some", e)
                        /\ c_held' = c_held \cup {e}
                        /\ c_granted' = Append(c_granted, e)
                   ELSE /\ Return(t, "Consumer.reserve", "None", NoEntry)
                        /\ UNCHANGED <<c_held, c_granted>>
    /\ UNCHANGED <<ring, head, tail, uncommitted_tail, uncommitted_tail_b, p_held,
                   p_granted, p_committed, c_committed>>

\* commit(entry), the load and the order test; the handle is moved in.
ConsumerCommitLoad(t, e) ==
    /\ pc[t] = "idle"
    /\ e \in c_held
    /\ c_held' = c_held \ {e}
    /\ IF ConsumerOutOfOrder(e.index, head)
       THEN Return(t, "Consumer.commit", "CommitOutOfOrder", e)
       ELSE Goto(t, "c_commit_add", [local[t] EXCEPT !.entry = e])
    /\ UNCHANGED <<ring, counters, history, p_held>>

\* commit, `self.head.fetch_add(1, Release); Ok(())`
ConsumerCommitFetchAdd(t) ==
    /\ pc[t] = "c_commit_add"
    /\ head' = WrappingAdd(head, 1)
    /\ c_committed' = Append(c_committed, local[t].entry)
    /\ Return(t, "Consumer.commit", "Ok", local[t].entry)
    /\ UNCHANGED <<ring, tail, uncommitted_tail, uncommitted_head,
                   uncommitted_tail_b, uncommitted_head_b, p_held, c_held,
                   p_granted, c_granted, p_committed>>

(***************************************************************************)
(* Any callers: threads that call reserve and commit in any order, hold    *)
(* any number of handles, pass them to one another, or never commit them.  *)
(***************************************************************************)
InReserve(S) == {t \in S : pc[t] \in {"p_reserve_tail", "p_reserve_cas",
                                       "c_reserve_tail", "c_reserve_cas"}}

\* The bound on the length of a behaviour: a side starts no further reserve
\* once MaxOps reservations are granted or in flight.
MayReserve(S, granted) == Len(granted) + Cardinality(InReserve(S)) < MaxOps

ProducerStep(t) ==
    \/ MayReserve(Producers, p_granted) /\ ProducerReserveLoadHead(t)
    \/ ProducerReserveLoadTail(t)
    \/ ProducerReserveCas(t)
    \/ \E e \in p_held : ProducerCommitLoad(t, e)
    \/ ProducerCommitFetchAdd(t)

ConsumerStep(t) ==
    \/ MayReserve(Consumers, c_granted) /\ ConsumerReserveLoadHead(t)
    \/ ConsumerReserveLoadTail(t)
    \/ ConsumerReserveCas(t)
    \/ \E e \in c_held : ConsumerCommitLoad(t, e)
    \/ ConsumerCommitFetchAdd(t)

Next ==
    \/ \E t \in Producers : ProducerStep(t)
    \/ \E t \in Consumers : ConsumerStep(t)

Spec == Init /\ [][Next]_vars

(***************************************************************************)
(* What the histories say                                                  *)
(***************************************************************************)
Range(seq) == {seq[k] : k \in 1..Len(seq)}

\* Reserved and not (yet) successfully committed.
POutstanding == Range(p_granted) \ Range(p_committed)
COutstanding == Range(c_granted) \ Range(c_committed)

\* Handles inside a commit call that passed the order test.
PInCommit == {local[t].entry : t \in {u \in Producers : pc[u] = "p_commit_add"}}
CInCommit == {local[t].entry : t \in {u \in Consumers : pc[u] = "c_commit_add"}}

\* Handles whose commit returned CommitOutOfOrder: moved into the call, gone.
PLost == POutstanding \ (p_held \cup PInCommit)
CLost == COutstanding \ (c_held \cup CInCommit)

\* seq holds the handles of the consecutive indices start, start+1, ...
Consecutive(seq, start) ==
    \A k \in 1..Len(seq) : seq[k].index = WrappingAdd(start, k - 1)

(***************************************************************************)
(* C1: on each side a commit returns Ok only for the handle whose index is *)
(* the visible counter, so the committed indices are consecutive from the  *)
(* counter's first value and no reservation publishes before a lower,      *)
(* already reserved one: the committed handles are a prefix of the granted *)
(* handles, and right after an Ok the counter is one past that index.      *)
(***************************************************************************)
C1_CommitInOrder ==
    /\ Consecutive(p_committed, tail0)
    /\ Consecutive(c_committed, head0)
    /\ Len(p_committed) <= Len(p_granted)
    /\ Len(c_committed) <= Len(c_granted)
    /\ p_committed = SubSeq(p_granted, 1, Len(p_committed))
    /\ c_committed = SubSeq(c_granted, 1, Len(c_committed))
    /\ (last.call = "Producer.commit" /\ last.result = "Ok")
          => tail = WrappingAdd(last.entry.index, 1)
    /\ (last.call = "Consumer.commit" /\ last.result = "Ok")
          => head = WrappingAdd(last.entry.index, 1)

\* Both sides committed several handles, one of them after a higher one was
\* refused.
C1_Witness ==
    /\ Len(p_committed) >= 2
    /\ Len(c_committed) >= 2
    /\ PLost # {}
    /\ last.result = "Ok"

(***************************************************************************)
(* C2: whatever threads reserve concurrently on one instance, the indices  *)
(* granted are the consecutive values from the shadow counter's first      *)
(* value, each granted once.                                               *)
(***************************************************************************)
C2_ReserveUnique ==
    /\ Consecutive(p_granted, tail0)
    /\ Consecutive(c_granted, head0)
    /\ \A a, b \in Range(p_granted) : a.index = b.index => a = b
    /\ \A a, b \in Range(c_granted) : a.index = b.index => a = b
    /\ uncommitted_tail = WrappingAdd(tail0, Len(p_granted))
    /\ uncommitted_head = WrappingAdd(head0, Len(c_granted))

\* Two threads raced on each instance: one is about to lose its
\* compare_exchange after others were granted handles.
C2_Witness ==
    /\ \E t \in Producers :
          pc[t] = "p_reserve_cas" /\ local[t].tail # uncommitted_tail
    /\ \E t \in Consumers :
          pc[t] = "c_reserve_cas" /\ local[t].head # uncommitted_head
    /\ Len(p_granted) >= 2
    /\ Len(c_granted) >= 2

(***************************************************************************)
(* C3: on a normal-mode ring no two outstanding reservations, of the same  *)
(* side or of opposite sides, refer to the same slot of entries.           *)
(***************************************************************************)
AllOutstanding ==
    {<<"P", e>> : e \in POutstanding} \cup {<<"C", e>> : e \in COutstanding}

C3_SlotExclusive ==
    shift = 0 =>
        \A a, b \in AllOutstanding : a[2].entry = b[2].entry => a = b

\* Reservations are outstanding on both sides at once, the producer's on a
\* slot the consumer freed earlier.
C3_Witness ==
    /\ shift = 0
    /\ POutstanding # {}
    /\ COutstanding # {}
    /\ \E e \in POutstanding : \E f \in Range(c_committed) : e.entry = f.entry

(***************************************************************************)
(* C4: (tail - head) mod 2^32 stays within [0, entries.len()].             *)
(***************************************************************************)
C4_AvailableInRange ==
    ~UsizeGe(WrappingSub(tail, head), Len(entries) + 1)

\* Commits of both sides brought the ring to full occupancy.
C4_Witness ==
    /\ WrappingSub(tail, head) = U32Of(Len(entries))
    /\ Len(p_committed) >= 1
    /\ Len(c_committed) >= 1

(***************************************************************************)
(* C5: with R1 (index i) and R2 (index i+1) outstanding on one side, a     *)
(* commit of R2 before R1 has committed returns CommitOutOfOrder and       *)
(* leaves head, tail and the shadow counters unchanged; the commit of R1   *)
(* issued after that passes the order test, finds the counter at i, moves  *)
(* it to i+1 and returns Ok.                                               *)
(***************************************************************************)
\* One step seen from a side: `held` its handles before and `heldN` after,
\* `out` its outstanding and `lost` its refused handles before the step,
\* `ctr` its visible counter before and `ctrN` after.
CommitOrderStep(call, at, held, heldN, out, lost, ctr, ctrN) ==
    /\ \A r2 \in held :
          (r2 \notin heldN /\ \E r1 \in out : WrappingAdd(r1.index, 1) = r2.index)
          => /\ last'.call = call
             /\ last'.result = "CommitOutOfOrder"
             /\ last'.entry = r2
             /\ UNCHANGED counters
    /\ \A r1 \in held :
          (/\ r1 \notin heldN
           /\ \E r2 \in lost : WrappingAdd(r1.index, 1) = r2.index
           /\ \A r \in out : r.id >= r1.id)
          => /\ ctr = r1.index
             /\ \E t \in Threads : pc'[t] = at /\ local'[t].entry = r1
    /\ \A t \in Threads :
          (pc[t] = at /\ pc'[t] # at)
          => /\ ctr = local[t].entry.index
             /\ ctrN = WrappingAdd(local[t].entry.index, 1)
             /\ last'.call = call
             /\ last'.result = "Ok"
             /\ last'.entry = local[t].entry

C5_OutOfOrderCommit ==
    [][/\ CommitOrderStep("Producer.commit", "p_commit_add", p_held, p_held',
                          POutstanding, PLost, tail, tail')
       /\ CommitOrderStep("Consumer.commit", "c_commit_add", c_held, c_held',
                          COutstanding, CLost, head, head')]_vars

\* R2 was refused, and then the commit of R1 returned Ok.
C5_Witness ==
    /\ last.call = "Producer.commit"
    /\ last.result = "Ok"
    /\ \E r2 \in PLost : r2.index = WrappingAdd(last.entry.index, 1)

(***************************************************************************)
(* C6: a reservation whose commit returned CommitOutOfOrder can be         *)
(* committed again, so on the ring of 2 entries with head = 0 and tail = 2 *)
(* where indices 0 and 1 are reserved, head reaches 2 whatever the order   *)
(* of the commits: once the holders have no handle left to commit or to    *)
(* retry and no commit is running, head is 2.                              *)
(***************************************************************************)
C6_RetryReachesTwo ==
    (/\ Len(entries) = 2
     /\ shift = 0
     /\ head0 = U32Zero
     /\ tail0 = U32Of(2)
     /\ Len(c_granted) = 2
     /\ c_held = {}
     /\ CInCommit = {})
    => head = U32Of(2)

(***************************************************************************)
(* The test producer_and_consumer_work_together_to_avoid_deadlocks: one    *)
(* consumer thread and one producer thread, each looping `reserve until a  *)
(* handle is returned, then commit` for ENTRIES + 1 items.                 *)
(***************************************************************************)
\* const ENTRIES: usize = 2
TestEntries == 2

\* for _ in 0..=ENTRIES
TestItems == TestEntries + 1

TestInit ==
    /\ entries = Slice(TestEntries)
    /\ mask = TestEntries - 1
    /\ shift = 0
    /\ overflow_checks \in BOOLEAN
    /\ head0 = U32Zero
    /\ tail0 = U32Of(TestEntries)
    /\ instance = OneEach
    /\ Fresh

\* The consumer thread: the next reserve() starts once the handle of the
\* item before was passed to commit (whose result is dropped).
TestConsumer ==
    \/ /\ c_held = {}
       /\ Len(c_granted) < TestItems
       /\ ConsumerReserveLoadHead("c1")
    \/ ConsumerReserveLoadTail("c1")
    \/ ConsumerReserveCas("c1")
    \/ \E e \in c_held : ConsumerCommitLoad("c1", e)
    \/ ConsumerCommitFetchAdd("c1")

TestProducer ==
    \/ /\ p_held = {}
       /\ Len(p_granted) < TestItems
       /\ ProducerReserveLoadHead("p1")
    \/ ProducerReserveLoadTail("p1")
    \/ ProducerReserveCas("p1")
    \/ \E e \in p_held : ProducerCommitLoad("p1", e)
    \/ ProducerCommitFetchAdd("p1")

TestNext == TestConsumer \/ TestProducer

\* Both threads are scheduled fairly.
TestSpec ==
    TestInit /\ [][TestNext]_vars /\ WF_vars(TestConsumer) /\ WF_vars(TestProducer)

\* Both threads left their loops.
TestDone ==
    /\ pc["c1"] = "idle"
    /\ pc["p1"] = "idle"
    /\ c_held = {}
    /\ p_held = {}
    /\ Len(c_granted) = TestItems
    /\ Len(p_granted) = TestItems

(***************************************************************************)
(* C7: under fair scheduling both threads of that test terminate, and at   *)
(* termination head = 3 and tail = 5.                                      *)
(***************************************************************************)
C7_TestTerminates ==
    /\ <>TestDone
    /\ [](TestDone => (head = U32Of(3) /\ tail = U32Of(5)))

\* The producer found the ring full, retried, and both threads finished.
C7_Witness ==
    /\ TestDone
    /\ head = U32Of(TestItems)
    /\ tail = U32Of(TestEntries + TestItems)

(***************************************************************************)
(* C8: the visible counter of a side has advanced by the number of commits *)
(* of that side that returned Ok, no index was committed twice, and a      *)
(* commit that returns CommitOutOfOrder moves no visible counter.          *)
(***************************************************************************)
C8_CountsOk ==
    /\ WrappingSub(tail, tail0) = U32Of(Len(p_committed))
    /\ WrappingSub(head, head0) = U32Of(Len(c_committed))
    /\ \A j, k \in 1..Len(p_committed) :
          p_committed[j].index = p_committed[k].index => j = k
    /\ \A j, k \in 1..Len(c_committed) :
          c_committed[j].index = c_committed[k].index => j = k

C8_CommitCounts ==
    /\ []C8_CountsOk
    /\ [][last'.result = "CommitOutOfOrder" => (head' = head /\ tail' = tail)]_vars

\* Two threads were inside Consumer.commit at once: one passed the order
\* test and has not added yet, the other was refused.
C8_Witness ==
    /\ last.call = "Consumer.commit"
    /\ last.result = "CommitOutOfOrder"
    /\ CInCommit # {}
    /\ Len(p_committed) >= 1

(***************************************************************************)
(* A single-threaded producer: thread p1 alone alternates reserve() and    *)
(* commit() over the slots that are free at construction; head does not    *)
(* move.                                                                   *)
(***************************************************************************)
\* The free slots at construction: entries.len() - (tail0 - head0).
SeqRounds == Len(entries) - WrappingSub(tail0, head0)[2]

SeqProducer ==
    \/ /\ p_held = {}
       /\ Len(p_granted) < SeqRounds
       /\ ProducerReserveLoadHead("p1")
    \/ ProducerReserveLoadTail("p1")
    \/ ProducerReserveCas("p1")
    \/ \E e \in p_held : ProducerCommitLoad("p1", e)
    \/ ProducerCommitFetchAdd("p1")

SeqSpec == Init /\ [][SeqProducer]_vars

\* All rounds are done.
SeqDone ==
    /\ pc["p1"] = "idle"
    /\ p_held = {}
    /\ Len(p_granted) = SeqRounds

(***************************************************************************)
(* C9: the single-threaded producer with N free slots that alternates      *)
(* reserve() and commit() N times gets a handle from every reserve, with   *)
(* the indices tail0, tail0+1, ... in that order, every commit returns Ok, *)
(* and tail ends at tail0 + N.                                             *)
(***************************************************************************)
C9_SequentialProducer ==
    /\ pc["p1"] # "panicked"
    /\ last.result \notin {"None", "CommitOutOfOrder", "panic"}
    /\ Consecutive(p_granted, tail0)
    /\ SeqDone => tail = WrappingAdd(tail0, SeqRounds)

(***************************************************************************)
(* C10: a reserve() that returns no handle (ring full, nothing claimable,  *)
(* or compare_exchange lost) changes none of head, tail and the shadow     *)
(* counters: neither its loads nor the step in which it returns None.      *)
(***************************************************************************)
ReserveLabels ==
    {"p_reserve_tail", "p_reserve_cas", "c_reserve_tail", "c_reserve_cas"}

C10_FailedReserveNoEffect ==
    [][(\/ /\ last'.call \in {"Producer.reserve", "Consumer.reserve"}
           /\ last'.result = "None"
        \/ \E t \in Threads : pc'[t] \in ReserveLabels /\ pc'[t] # pc[t])
       => UNCHANGED counters]_vars

\* Producer.reserve returned None on a ring that is not full: it lost the
\* race for the shadow tail (or tested a head that has moved since).
C10_Witness ==
    /\ last.call = "Producer.reserve"
    /\ last.result = "None"
    /\ ~ProducerFull(uncommitted_tail, head, Len(entries))
    /\ Len(p_granted) >= 1

(***************************************************************************)
(* C11: a reserve() that returns a handle advances the shadow counter of   *)
(* its side and leaves head and tail alone; tail changes only in the step  *)
(* in which a Producer.commit returns Ok, head only in the step in which a *)
(* Consumer.commit returns Ok, and then by exactly one (so neither ever    *)
(* goes back, modulo the wrap).                                            *)
(***************************************************************************)
C11_VisibleOnlyByCommit ==
    [][/\ (last'.call = "Producer.reserve" /\ last'.result = "Some")
              => /\ head' = head /\ tail' = tail
                 /\ uncommitted_tail' # uncommitted_tail
                 /\ uncommitted_head' = uncommitted_head
       /\ (last'.call = "Consumer.reserve" /\ last'.result = "Some")
              => /\ head' = head /\ tail' = tail
                 /\ uncommitted_head' # uncommitted_head
                 /\ uncommitted_tail' = uncommitted_tail
       /\ tail' # tail
              => /\ last'.call = "Producer.commit" /\ last'.result = "Ok"
                 /\ WrappingSub(tail', tail) = U32Of(1)
       /\ head' # head
              => /\ last'.call = "Consumer.commit" /\ last'.result = "Ok"
                 /\ WrappingSub(head', head) = U32Of(1)]_vars

\* A reserve just returned a handle, ahead of a visible counter that
\* commits have moved before.
C11_Witness ==
    /\ last.call = "Producer.reserve"
    /\ last.result = "Some"
    /\ uncommitted_tail # tail
    /\ Len(p_committed) >= 1
    /\ Len(c_committed) >= 1

(***************************************************************************)
(* C12: while a handle reserved at index i is not committed, the visible   *)
(* counter of its side is not beyond i and no other handle of that side    *)
(* has index i; once the handle is gone without a commit it stays so, and  *)
(* from then on every commit of a later reservation of that side returns   *)
(* CommitOutOfOrder.                                                       *)
(***************************************************************************)
\* The counter has not passed the index: index - counter is within the ring.
NotBeyond(ctr, e) == ~UsizeGe(WrappingSub(e.index, ctr), Len(entries))

C12_State ==
    /\ \A e \in POutstanding :
          /\ NotBeyond(tail, e)
          /\ \A f \in Range(p_granted) : f.index = e.index => f = e
    /\ \A e \in COutstanding :
          /\ NotBeyond(head, e)
          /\ \A f \in Range(c_granted) : f.index = e.index => f = e

C12_Step(call, held, heldN, lost, lostN) ==
    /\ lost \subseteq lostN
    /\ \A r \in held :
          (r \notin heldN /\ \E e \in lost : e.id < r.id)
          => (last'.call = call /\ last'.result = "CommitOutOfOrder")

C12_AbandonedStalls ==
    /\ []C12_State
    /\ [][/\ C12_Step("Producer.commit", p_held, p_held', PLost, PLost')
          /\ C12_Step("Consumer.commit", c_held, c_held', CLost, CLost')]_vars

\* The handle of index i is gone, the counter stalls at i, and the commit
\* of a later reservation was just refused.
C12_Witness ==
    /\ last.call = "Consumer.commit"
    /\ last.result = "CommitOutOfOrder"
    /\ \E e \in CLost : e.id < last.entry.id /\ head = e.index
    /\ Len(c_committed) >= 1

(***************************************************************************)
(* C19: Consumer.reserve() returns None when the shadow head it loaded     *)
(* equals the tail it loaded, so on a ring built with head == tail nothing *)
(* is handed out before a producer commits; the shadow head never exceeds  *)
(* tail, and every handle a consumer was given and has not committed has   *)
(* an index that tail has already passed.                                  *)
(***************************************************************************)
\* 0 <= a - b <= n, as `usize`.
AtMostAhead(a, b, n) == ~UsizeGe(WrappingSub(a, b), n + 1)

C19_ConsumerBehindTail ==
    /\ \A t \in Consumers :
          pc[t] = "c_reserve_cas" => local[t].head # local[t].tail
    /\ AtMostAhead(tail, uncommitted_head, Len(entries))
    /\ \A e \in COutstanding :
          /\ e.index # tail
          /\ AtMostAhead(tail, e.index, Len(entries))
    /\ (head0 = tail0 /\ tail = tail0) => c_granted = << >>

\* On a ring built with head == tail a consumer was just refused while a
\* producer holds a handle it has not committed.
C19_Witness ==
    /\ head0 = tail0
    /\ last.call = "Consumer.reserve"
    /\ last.result = "None"
    /\ tail = tail0
    /\ Len(p_granted) >= 1

(***************************************************************************)
(* C20: Producer.reserve() returns None when the shadow tail it loaded is  *)
(* entries.len() or more ahead of the head it loaded, and the shadow tail  *)
(* is never more than entries.len() ahead of head, whichever thread        *)
(* reserves and however old the head it loaded is.                         *)
(***************************************************************************)
C20_ProducerWithinCapacity ==
    /\ \A t \in Producers :
          pc[t] = "p_reserve_cas"
          => ~UsizeGe(WrappingSub(local[t].tail, local[t].head), Len(entries))
    /\ AtMostAhead(uncommitted_tail, head, Len(entries))
    /\ \A e \in POutstanding : ~UsizeGe(WrappingSub(e.index, head), Len(entries))

\* A producer was just refused on a full ring after the consumers had made
\* room and the producers had used it up again.
C20_Witness ==
    /\ last.call = "Producer.reserve"
    /\ last.result = "None"
    /\ WrappingSub(uncommitted_tail, head) = U32Of(Len(entries))
    /\ Len(c_committed) >= 1
    /\ Len(p_granted) >= 1

(***************************************************************************)
(* C15: head is written by consumers only and tail by producers only:      *)
(* construction leaves both as they were given, no step of a producer      *)
(* thread changes head and no step of a consumer thread changes tail.      *)
(***************************************************************************)
StepOf(t) == pc'[t] # pc[t] \/ (last' # last /\ last'.thread = t)

C15_SingleWriter ==
    /\ (head = head0 /\ tail = tail0)
    /\ [][/\ \A t \in Producers : StepOf(t) => head' = head
          /\ \A t \in Consumers : StepOf(t) => tail' = tail
          /\ \E t \in Threads : StepOf(t)]_vars

\* A producer commit has just returned Ok after another was refused, and
\* a consumer has moved head: both counters have left their first values.
C15_Witness ==
    /\ last.call = "Producer.commit"
    /\ last.result = "Ok"
    /\ PLost # {}
    /\ head # head0
    /\ tail # tail0

(***************************************************************************)
(* Several instances of a side over the same entries, head and tail: each  *)
(* thread builds its own RingBufferProducer or RingBufferConsumer, and     *)
(* each instance reads its own shadow counter from the shared counter.     *)
(***************************************************************************)
OnePerThread == [t \in Threads |-> IF t \in {"p1", "c1"} THEN "a" ELSE "b"]

MultiInit ==
    /\ entries \in {Slice(n) : n \in Lens}
    /\ mask = Len(entries) - 1
    /\ shift = 0
    /\ overflow_checks = FALSE
    /\ head0 = U32Zero
    /\ tail0 \in {U32Of(k) : k \in 0..Len(entries)}
    /\ instance = OnePerThread
    /\ Fresh

MultiSpec == MultiInit /\ [][Next]_vars

\* The indices that occur in a history.
Indices(seq) == {seq[k].index : k \in 1..Len(seq)}

(***************************************************************************)
(* C13: with one instance per thread over the same entries, head and tail, *)
(* each index is granted to one reservation only across the instances of   *)
(* a side, and the visible counter of the side has advanced by exactly one *)
(* for each index committed.                                               *)
(***************************************************************************)
C13_AcrossInstances ==
    /\ \A e, f \in Range(p_granted) : e.index = f.index => e = f
    /\ \A e, f \in Range(c_granted) : e.index = f.index => e = f
    /\ tail = WrappingAdd(tail0, Cardinality(Indices(p_committed)))
    /\ head = WrappingAdd(head0, Cardinality(Indices(c_committed)))

(***************************************************************************)
(* available(), called while other threads reserve and commit.             *)
(***************************************************************************)
AvailableOf(t) == IF t \in Producers THEN "Producer.available"
                                      ELSE "Consumer.available"

\* available, the receiver: `self.tail.load(Acquire)`
AvailableLoadTail(t) ==
    /\ pc[t] = "idle"
    /\ Goto(t, "available_head", [local[t] EXCEPT !.tail = tail])
    /\ UNCHANGED <<ring, counters, history, p_held, c_held>>

\* available, the argument and the result:
\* `.wrapping_sub(self.head.load(Acquire))`
AvailableLoadHead(t) ==
    /\ pc[t] = "available_head"
    /\ ReturnValue(t, AvailableOf(t), WrappingSub(local[t].tail, head))
    /\ UNCHANGED <<ring, counters, history, p_held, c_held>>

\* Threads p1 and c1 reserve and commit; p2 and c2 call available() on the
\* same two instances.
ObsNext ==
    \/ ProducerStep("p1")
    \/ ConsumerStep("c1")
    \/ \E t \in {"p2", "c2"} : AvailableLoadTail(t) \/ AvailableLoadHead(t)

ObsSpec == Init /\ [][ObsNext]_vars

(***************************************************************************)
(* C18: every value available() returns lies in [0, entries.len()], also   *)
(* when commits happen between its two loads.  (tail - head lies in that   *)
(* range at every moment, so a value outside it is the difference of the   *)
(* counters at no single moment.)                                          *)
(***************************************************************************)
C18_AvailableSnapshot ==
    last.result = "u32" => AtMostAhead(last.value, U32Zero, Len(entries))

(***************************************************************************)
(* new / new_big: the validation of entries.len() and mask.  A length is a *)
(* u64 of three limbs <<top, hi, lo>>, top counting the multiples of 2^32. *)
(***************************************************************************)
U64Of(top, hi, lo) == <<top, hi, lo>>
U64Zero == U64Of(0, 0, 0)

\* `mask as usize`
U64From(m) == U64Of(0, m[1], m[2])

\* `entries.len() as u64 > u64::from(u32::MAX)`
AboveU32(len) == len[1] > 0

\* The least power of two that is >= n, for n up to Limb, from p upwards.
RECURSIVE Pow2AtLeast(_, _)
Pow2AtLeast(n, p) == IF p >= n THEN p ELSE Pow2AtLeast(n, 2 * p)

\* A power of two p <= Limb placed in limb k (1 = top): it carries into the
\* limb above when it is Limb itself.
Pow2InLimb(p, k) ==
    IF p < Limb THEN [i \in 1..3 |-> IF i = k THEN p ELSE 0]
    ELSE [i \in 1..3 |-> IF i = k - 1 THEN 1 ELSE 0]

\* Mutant of NextPowerOfTwo: zero is taken for its own power of two.
NextPowerOfTwo_ZeroIsZero(len) ==
    IF len = U64Zero THEN U64Zero
    ELSE IF len[1] > 0
    THEN Pow2InLimb(Pow2AtLeast(IF len[2] = 0 /\ len[3] = 0 THEN len[1] ELSE len[1] + 1, 1), 1)
    ELSE IF len[2] > 0
    THEN Pow2InLimb(Pow2AtLeast(IF len[3] = 0 THEN len[2] ELSE len[2] + 1, 1), 2)
    ELSE Pow2InLimb(Pow2AtLeast(len[3], 1), 3)

\* u64::next_power_of_two: the least power of two >= len; 1 for 0.
NextPowerOfTwo(len) ==
    IF len[1] > 0
    THEN Pow2InLimb(Pow2AtLeast(IF len[2] = 0 /\ len[3] = 0 THEN len[1] ELSE len[1] + 1, 1), 1)
    ELSE IF len[2] > 0
    THEN Pow2InLimb(Pow2AtLeast(IF len[3] = 0 THEN len[2] ELSE len[2] + 1, 1), 2)
    ELSE Pow2InLimb(Pow2AtLeast(len[3], 1), 3)

\* `entries.len() - 1` for a length that is not zero.
U64Pred(len) ==
    IF len[3] > 0 THEN U64Of(len[1], len[2], len[3] - 1)
    ELSE IF len[2] > 0 THEN U64Of(len[1], len[2] - 1, Limb - 1)
    ELSE U64Of(len[1] - 1, Limb - 1, Limb - 1)

\* `mask as usize != entries.len() - 1`.  For a length of zero the
\* subtraction overflows: a panic in a build with overflow checks, and
\* usize::MAX otherwise, which no u32 equals.
MaskCheck(len, m, checks) ==
    IF len = U64Zero
    THEN IF checks THEN "panic" ELSE "InvalidMaskValue"
    ELSE IF U64From(m) # U64Pred(len) THEN "InvalidMaskValue" ELSE "Ok"

\* Mutant of NewInternal: the mask is compared before the power-of-two test.
NewInternal_MaskFirst(len, m, checks) ==
    IF AboveU32(len) THEN "EntriesSliceTooLong"
    ELSE IF MaskCheck(len, m, checks) # "Ok" THEN MaskCheck(len, m, checks)
    ELSE IF NextPowerOfTwo(len) # len THEN "LengthNotPowerOfTwo"
    ELSE "Ok"

\* new_internal, the three tests in the order of the code.
NewInternal(len, m, checks) ==
    IF AboveU32(len) THEN "EntriesSliceTooLong"
    ELSE IF NextPowerOfTwo(len) # len THEN "LengthNotPowerOfTwo"
    ELSE MaskCheck(len, m, checks)

\* The four constructors; the big ones pass `big = true`.
Constructors == {"RingBufferProducer::new", "RingBufferProducer::new_big",
                 "RingBufferConsumer::new", "RingBufferConsumer::new_big"}
IsBig(call) == call \in {"RingBufferProducer::new_big", "RingBufferConsumer::new_big"}

\* The lengths and masks the constructors are called with: around 0, around
\* the limbs, and around u32::MAX.
CtorLens ==
    {U64Of(0, 0, n) : n \in {0, 1, 2, 3, 4, 5, 8, Limb - 1}}
    \cup {U64Of(0, 1, 0), U64Of(0, 1, 1), U64Of(0, Limb \div 2, 0),
          U64Of(0, Limb - 1, Limb - 1), U64Of(1, 0, 0), U64Of(1, 0, 1),
          U64Of(2, 0, 0)}
CtorMasks ==
    {U32Of(n) : n \in {0, 1, 2, 3, 4, 7, Limb - 1}}
    \cup {<<Limb \div 2 - 1, Limb - 1>>, <<Limb \div 2, 0>>, U32Max}

IsProducer(call) == call \in {"RingBufferProducer::new", "RingBufferProducer::new_big"}

\* Mutant of ShadowAtConstruction: the shadow counter is read from the other
\* counter.
ShadowAtConstruction_Other(call) == IF IsProducer(call) THEN head ELSE tail

\* `AtomicU32::new(tail.load(Relaxed))` in a Producer,
\* `AtomicU32::new(head.load(Relaxed))` in a Consumer.
ShadowAtConstruction(call) == IF IsProducer(call) THEN tail ELSE head

\* A constructor call.  On Ok the new instance (instance "b") has its shadow
\* counter; `value` keeps what the shadow counter was created with.
Construct(call, len, m) ==
    LET r == NewInternal(len, m, overflow_checks) IN
    /\ built' = [call |-> call, len |-> len, mask |-> m,
                 shift |-> IF IsBig(call) THEN 1 ELSE 0,
                 result |-> r,
                 value |-> IF r = "Ok" THEN ShadowAtConstruction(call) ELSE NoU32]
    /\ IF r = "Ok" /\ IsProducer(call)
       THEN uncommitted_tail_b' = ShadowAtConstruction(call)
       ELSE UNCHANGED uncommitted_tail_b
    /\ IF r = "Ok" /\ ~IsProducer(call)
       THEN uncommitted_head_b' = ShadowAtConstruction(call)
       ELSE UNCHANGED uncommitted_head_b
    /\ UNCHANGED <<entries, mask, shift, overflow_checks, head0, tail0, instance,
                   written, params, head, tail, uncommitted_tail, uncommitted_head,
                   history, pc, local, last, p_held, c_held>>

CtorInit ==
    /\ entries = Slice(1)
    /\ mask = 0
    /\ shift = 0
    /\ overflow_checks \in BOOLEAN
    /\ head0 = U32Zero
    /\ tail0 = U32Zero
    /\ instance = OneEach
    /\ Fresh

CtorNext == \E call \in Constructors, len \in CtorLens, m \in CtorMasks :
                Construct(call, len, m)

CtorSpec == CtorInit /\ [][CtorNext]_vars

\* Exactly one bit of the length is set.
Pow2s == {1, 2, 4, 8, 16, 32, 64, 128, 256, 512, 1024, 2048, 4096, 8192,
          16384, 32768}
IsPowerOfTwo(len) ==
    /\ Cardinality({i \in 1..3 : len[i] # 0}) = 1
    /\ \A i \in 1..3 : len[i] # 0 => len[i] \in Pow2s

(***************************************************************************)
(* C16: a constructor returns EntriesSliceTooLong when the length is above *)
(* 2^32 - 1; otherwise LengthNotPowerOfTwo when the length is not a power  *)
(* of two; otherwise InvalidMaskValue when mask + 1 is not the length;     *)
(* otherwise Ok.                                                           *)
(***************************************************************************)
C16_ValidationOrder ==
    built.call # "" =>
        built.result =
            IF built.len[1] > 0 THEN "EntriesSliceTooLong"
            ELSE IF ~IsPowerOfTwo(built.len) THEN "LengthNotPowerOfTwo"
            ELSE IF \/ built.mask = U32Max
                    \/ U64From(WrappingAdd(built.mask, 1)) # built.len
                 THEN "InvalidMaskValue"
            ELSE "Ok"

\* A length of 2^32, a power of two whose low 32 bits the mask 2^32 - 1
\* would fit, was refused as too long.
C16_Witness ==
    /\ built.len = U64Of(1, 0, 0)
    /\ built.mask = U32Max
    /\ built.result = "EntriesSliceTooLong"

(***************************************************************************)
(* C17: over a slice of length zero every constructor returns              *)
(* LengthNotPowerOfTwo, whatever the mask and the build: the subtraction   *)
(* entries.len() - 1 is not reached.                                       *)
(***************************************************************************)
C17_ZeroLength ==
    (built.call # "" /\ built.len = U64Zero)
        => built.result = "LengthNotPowerOfTwo"

\* new_big over no entries with the mask that 0 - 1 wraps to, in a build
\* with overflow checks.
C17_Witness ==
    /\ built.call = "RingBufferConsumer::new_big"
    /\ built.len = U64Zero
    /\ built.mask = U32Max
    /\ overflow_checks
    /\ built.result = "LengthNotPowerOfTwo"

(***************************************************************************)
(* The ring as a queue: a producer writes its item into the slot of the    *)
(* handle it holds and then commits; a consumer reads the slot of the      *)
(* handle it holds.  The item written through a handle is the handle's id; *)
(* a slot nobody wrote holds 0.                                            *)
(***************************************************************************)
\* A write through the handle (Deref, on a T with interior mutability).
ProducerWrite(t, e) ==
    /\ pc[t] = "idle"
    /\ e \in p_held
    /\ entries' = [entries EXCEPT ![e.entry + 1] = e.id]
    /\ written' = written \cup {e}
    /\ last' = NoCall
    /\ UNCHANGED <<mask, shift, overflow_checks, head0, tail0, instance, built,
                   params, counters, history, pc, local, p_held, c_held>>

\* A read through the handle (Deref).
ConsumerRead(t, e) ==
    /\ pc[t] = "idle"
    /\ e \in c_held
    /\ last' = [thread |-> t, call |-> "Consumer.read", result |-> "item",
                entry |-> e, value |-> entries[e.entry + 1]]
    /\ UNCHANGED <<ring, counters, history, pc, local, p_held, c_held>>

FifoProducer(t) ==
    \/ MayReserve(Producers, p_granted) /\ ProducerReserveLoadHead(t)
    \/ ProducerReserveLoadTail(t)
    \/ ProducerReserveCas(t)
    \/ \E e \in p_held : ProducerWrite(t, e)
    \/ \E e \in p_held \cap written : ProducerCommitLoad(t, e)
    \/ ProducerCommitFetchAdd(t)

FifoConsumer(t) ==
    \/ MayReserve(Consumers, c_granted) /\ ConsumerReserveLoadHead(t)
    \/ ConsumerReserveLoadTail(t)
    \/ ConsumerReserveCas(t)
    \/ \E e \in c_held : ConsumerRead(t, e)
    \/ \E e \in c_held : ConsumerCommitLoad(t, e)
    \/ ConsumerCommitFetchAdd(t)

\* Two threads produce through the producer, one consumes.
FifoNext ==
    \/ \E t \in Producers : FifoProducer(t)
    \/ FifoConsumer("c1")

FifoSpec == Init /\ [][FifoNext]_vars

\* The item published at index i: the id of the handle committed for i, and
\* 0 for an index below the tail the ring was built with.
ItemAt(i) ==
    IF i \in Indices(p_committed)
    THEN (CHOOSE e \in Range(p_committed) : e.index = i).id
    ELSE 0

(***************************************************************************)
(* C14: one producer and one consumer on one ring form a bounded FIFO      *)
(* queue: what a consumer reads through its handle of index i is what the  *)
(* producer wrote through its handle of index i; a published item stays in *)
(* its slot until the consumer has committed its index; items are          *)
(* published and consumed in the order of their indices, each index once.  *)
(***************************************************************************)
C14_Fifo ==
    /\ last.result = "item" => last.value = ItemAt(last.entry.index)
    /\ \A e \in Range(p_committed) :
          e.index \notin Indices(c_committed) => entries[e.entry + 1] = e.id
    /\ Consecutive(p_committed, tail0)
    /\ Consecutive(c_committed, head0)
    /\ \A e \in c_held :
          \/ e.index \in Indices(p_committed)
          \/ e.index # tail0 /\ AtMostAhead(tail0, e.index, Len(entries))

\* The consumer reads an item from a slot that held an earlier item.
C14_Witness ==
    /\ last.result = "item"
    /\ \E e, f \in Range(p_committed) :
          /\ e.id = last.value
          /\ e.index = last.entry.index
          /\ f.id < e.id
          /\ f.entry = e.entry

(***************************************************************************)
(* C21: with one instance per side, the shadow counter is ahead of the     *)
(* visible counter it shadows by the number of reservations of the side    *)
(* that no commit has published yet (held, inside commit, or gone with a   *)
(* refused commit), and ahead of its value at construction by the number   *)
(* of handles reserve() has returned: it is never behind, and moves by one *)
(* per handle.                                                             *)
(***************************************************************************)
C21_ShadowCountsOutstanding ==
    /\ WrappingSub(uncommitted_tail, tail) = U32Of(Cardinality(POutstanding))
    /\ WrappingSub(uncommitted_head, head) = U32Of(Cardinality(COutstanding))
    /\ WrappingSub(uncommitted_tail, tail0) = U32Of(Len(p_granted))
    /\ WrappingSub(uncommitted_head, head0) = U32Of(Len(c_granted))
    /\ Cardinality(Range(p_granted)) = Len(p_granted)
    /\ Cardinality(Range(c_granted)) = Len(c_granted)

\* Two producer reservations are outstanding, one of them gone with a
\* refused commit, after an earlier one was published; the counters are
\* across the wrap of the u32.
C21_Witness ==
    /\ Cardinality(POutstanding) = 2
    /\ PLost # {}
    /\ Len(p_committed) = 1
    /\ tail[1] > uncommitted_tail[1]

(***************************************************************************)
(* C22: the counters wrap modulo 2^32 with no overflow failure: in normal  *)
(* mode, where every slot position is within entries, no call of reserve   *)
(* panics, the index after 2^32 - 1 is 0 on both sides, and a commit at    *)
(* 2^32 - 1 leaves the visible counter at 0.                               *)
(***************************************************************************)
C22_WrapsModulo ==
    /\ \A t \in Threads : pc[t] = "panicked" => shift = 1
    /\ Consecutive(p_granted, tail0)
    /\ Consecutive(c_granted, head0)
    /\ (last.result = "Ok" /\ last.entry.index = U32Max)
          => IF last.call = "Producer.commit" THEN tail = U32Zero
                                              ELSE head = U32Zero

(***************************************************************************)
(* An external agent on tail and one consumer thread: the agent adds 1 to  *)
(* tail MaxOps times, starting from head == tail; thread c1 loops MaxOps   *)
(* times over `reserve until a handle is returned, then commit`, and then  *)
(* calls reserve() once more.                                              *)
(***************************************************************************)
AgentInit ==
    /\ entries \in {Slice(n) : n \in Lens}
    /\ mask = Len(entries) - 1
    /\ shift \in {0, 1}
    /\ overflow_checks \in BOOLEAN
    /\ head0 \in HeadStarts
    /\ tail0 = head0
    /\ instance = OneEach
    /\ Fresh

\* `k_tail.fetch_add(1, Ordering::Relaxed)`, MaxOps times.
AgentAdvanceTail ==
    /\ WrappingSub(tail, tail0)[2] < MaxOps
    /\ tail' = WrappingAdd(tail, 1)
    /\ last' = NoCall
    /\ UNCHANGED <<ring, head, uncommitted_tail, uncommitted_head,
                   uncommitted_tail_b, uncommitted_head_b, history, pc, local,
                   p_held, c_held>>

\* The last call of the consumer thread returned no handle after its loops.
FurtherReserveRefused ==
    /\ Len(c_granted) = MaxOps
    /\ last.call = "Consumer.reserve"
    /\ last.result = "None"

AgentConsumer ==
    \/ /\ c_held = {}
       /\ Len(c_granted) < MaxOps
       /\ ConsumerReserveLoadHead("c1")
    \/ /\ c_held = {}
       /\ Len(c_granted) = MaxOps
       /\ Len(c_committed) + Cardinality(CLost) = MaxOps
       /\ ~FurtherReserveRefused
       /\ ConsumerReserveLoadHead("c1")
    \/ ConsumerReserveLoadTail("c1")
    \/ ConsumerReserveCas("c1")
    \/ \E e \in c_held : ConsumerCommitLoad("c1", e)
    \/ ConsumerCommitFetchAdd("c1")

AgentConsumerNext == AgentAdvanceTail \/ AgentConsumer

\* The agent and the consumer thread are scheduled fairly.
AgentConsumerSpec ==
    /\ AgentInit
    /\ [][AgentConsumerNext]_vars
    /\ WF_vars(AgentAdvanceTail)
    /\ WF_vars(AgentConsumer)

\* The consumer thread is past its loops and its further reserve().
AgentConsumerDone ==
    /\ pc["c1"] = "idle"
    /\ c_held = {}
    /\ FurtherReserveRefused

(***************************************************************************)
(* C23: under fair scheduling of the agent and the consumer thread, the    *)
(* consumer gets through its MaxOps rounds, head is then head0 + MaxOps,   *)
(* and the reserve() after the last round returns no handle.               *)
(***************************************************************************)
C23_ConsumesAll ==
    /\ <>AgentConsumerDone
    /\ [](AgentConsumerDone => head = WrappingAdd(head0, MaxOps))
    /\ [](Len(c_granted) <= MaxOps)

(***************************************************************************)
(* An external agent on head and one producer thread on a full ring: the   *)
(* agent adds 1 to head once; thread p1 retries reserve() until it gets a  *)
(* handle, commits it and returns.                                         *)
(***************************************************************************)
FullInit ==
    /\ entries \in {Slice(n) : n \in Lens}
    /\ mask = Len(entries) - 1
    /\ shift \in {0, 1}
    /\ overflow_checks \in BOOLEAN
    /\ head0 \in HeadStarts
    /\ tail0 = WrappingAdd(head0, Len(entries))
    /\ instance = OneEach
    /\ Fresh

\* `k_head.fetch_add(1, Ordering::Relaxed)`, once.
AgentAdvanceHead ==
    /\ head = head0
    /\ head' = WrappingAdd(head, 1)
    /\ last' = NoCall
    /\ UNCHANGED <<ring, tail, uncommitted_tail, uncommitted_head,
                   uncommitted_tail_b, uncommitted_head_b, history, pc, local,
                   p_held, c_held>>

AgentProducer ==
    \/ /\ p_granted = << >>
       /\ ProducerReserveLoadHead("p1")
    \/ ProducerReserveLoadTail("p1")
    \/ ProducerReserveCas("p1")
    \/ \E e \in p_held : ProducerCommitLoad("p1", e)
    \/ ProducerCommitFetchAdd("p1")

AgentProducerNext == AgentAdvanceHead \/ AgentProducer

\* The agent and the producer thread are scheduled fairly.
AgentProducerSpec ==
    /\ FullInit
    /\ [][AgentProducerNext]_vars
    /\ WF_vars(AgentAdvanceHead)
    /\ WF_vars(AgentProducer)

\* The producer thread has returned from its commit.
AgentProducerDone ==
    /\ pc["p1"] = "idle"
    /\ p_held = {}
    /\ Len(p_granted) = 1

(***************************************************************************)
(* C24: on a full ring the producer gets no handle while head is where it  *)
(* was at construction; under fair scheduling of the agent and the         *)
(* retrying producer, the producer ends with the handle of index tail0     *)
(* committed and tail = tail0 + 1.                                         *)
(***************************************************************************)
C24_FullThenFreed ==
    /\ [](head = head0 => p_granted = << >>)
    /\ <>AgentProducerDone
    /\ [](AgentProducerDone =>
             /\ p_granted[1].index = tail0
             /\ p_committed = p_granted
             /\ WrappingSub(tail, tail0) = U32Of(1))

(***************************************************************************)
(* empty(), and a single producer thread that asks empty() before each     *)
(* reserve(); nothing moves head.                                          *)
(***************************************************************************)
EmptyOf(t) == IF t \in Producers THEN "Producer.empty" ELSE "Consumer.empty"

\* Mutant of Empty: `<=` for `<`.
Empty_Inclusive(avail, len) == IF UsizeGe(avail, len + 1) THEN "false" ELSE "true"

\* `(self.available() as usize) < self.entries.len()`
Empty(avail, len) == IF UsizeGe(avail, len) THEN "false" ELSE "true"

\* empty -> available, the receiver: `self.tail.load(Acquire)`
EmptyLoadTail(t) ==
    /\ pc[t] = "idle"
    /\ Goto(t, "empty_head", [local[t] EXCEPT !.tail = tail])
    /\ UNCHANGED <<ring, counters, history, p_held, c_held>>

\* The threads whose caller binds the result of empty() to a local and
\* branches on it; the others drop it.
KeepsResult == {"p1", "c1"}

\* empty -> available, `.wrapping_sub(self.head.load(Acquire))`, and the
\* comparison.
EmptyLoadHead(t) ==
    /\ pc[t] = "empty_head"
    /\ LET r == Empty(WrappingSub(local[t].tail, head), Len(entries))
       IN  /\ pc' = [pc EXCEPT ![t] = "idle"]
           /\ local' = [local EXCEPT ![t] =
                         [NoLocals EXCEPT !.empty = IF t \in KeepsResult THEN r ELSE ""]]
           /\ last' = [thread |-> t, call |-> EmptyOf(t), result |-> r,
                       entry |-> NoEntry, value |-> NoU32]
    /\ UNCHANGED <<ring, counters, history, p_held, c_held>>

EmptyProducer ==
    \/ /\ p_held = {}
       /\ local["p1"].empty = ""
       /\ EmptyLoadTail("p1")
    \/ EmptyLoadHead("p1")
    \/ /\ local["p1"].empty # ""
       /\ MayReserve(Producers, p_granted)
       /\ ProducerReserveLoadHead("p1")
    \/ ProducerReserveLoadTail("p1")
    \/ ProducerReserveCas("p1")
    \/ \E e \in p_held : ProducerCommitLoad("p1", e)
    \/ ProducerCommitFetchAdd("p1")

EmptySpec == Init /\ [][EmptyProducer]_vars /\ WF_vars(EmptyProducer)

(***************************************************************************)
(* C25: for a single producer thread and a head that does not move, a      *)
(* reserve() called right after empty() returned true returns no handle,   *)
(* and a reserve() called right after empty() returned false returns a     *)
(* handle.                                                                 *)
(***************************************************************************)
C25_EmptyAsDocumented ==
    [][(last'.call = "Producer.reserve" /\ last'.thread = "p1")
          => /\ local["p1"].empty = "true" => last'.result = "None"
             /\ local["p1"].empty = "false" => last'.result = "Some"]_vars

(***************************************************************************)
(* Threads p1 and c1 reserve and commit; p2 and c2 call empty() on the     *)
(* same two instances.                                                     *)
(***************************************************************************)
EmptyObsNext ==
    \/ ProducerStep("p1")
    \/ ConsumerStep("c1")
    \/ \E t \in {"p2", "c2"} : EmptyLoadTail(t) \/ EmptyLoadHead(t)

EmptyObsSpec == Init /\ [][EmptyObsNext]_vars

SizeOf(t) == IF t \in Producers THEN "Producer.size" ELSE "Consumer.size"

\* n >> s
RECURSIVE ShiftRight(_, _)
ShiftRight(n, s) == IF s = 0 THEN n ELSE ShiftRight(n \div 2, s - 1)

\* Mutant of Size: the shift is left out.
Size_Unshifted(len, s) == len

\* `self.entries.len() >> self.shift`
Size(len, s) == ShiftRight(len, s)

SizeCall(t) ==
    /\ pc[t] = "idle"
    /\ last' = [thread |-> t, call |-> SizeOf(t), result |-> "usize",
                entry |-> NoEntry, value |-> Size(Len(entries), shift)]
    /\ UNCHANGED <<ring, counters, history, pc, local, p_held, c_held>>

\* Threads p1 and c1 reserve and commit; p2 and c2 call size() on the same
\* two instances.
SizeObsNext ==
    \/ ProducerStep("p1")
    \/ ConsumerStep("c1")
    \/ \E t \in {"p2", "c2"} : SizeCall(t)

SizeObsSpec == Init /\ [][SizeObsNext]_vars

(***************************************************************************)
(* C27: size() returns entries.len() on an instance built with new and     *)
(* entries.len() / 2 on an instance built with new_big, on both roles, at  *)
(* any point of the instance's life, whatever was reserved and committed.  *)
(***************************************************************************)
C27_SizeByMode ==
    last.result = "usize"
        => /\ shift \in {0, 1}
           /\ shift = 0 => last.value = Len(entries)
           /\ shift = 1 => 2 * last.value \in {Len(entries), Len(entries) - 1}

\* size() on a big consumer over two entries returned 1 after both sides
\* have committed.
C27_Witness ==
    /\ last.call = "Consumer.size"
    /\ shift = 1
    /\ Len(entries) = 2
    /\ last.value = 1
    /\ Len(p_committed) >= 1
    /\ Len(c_committed) >= 1

(***************************************************************************)
(* Params: new() and the chain of builder calls.                           *)
(***************************************************************************)
\* The length bound of a builder chain.
MaxChain == 3

\* Mutant of U32NextPowerOfTwo: the power of two strictly above n.
U32NextPowerOfTwo_Above(n) ==
    LET p == NextPowerOfTwo(U64From(WrappingAdd(n, 1))) IN <<p[2], p[3]>>

\* u32::next_power_of_two where overflow wraps: 2^32 becomes 0.
U32NextPowerOfTwo(n) ==
    LET p == NextPowerOfTwo(U64From(n)) IN <<p[2], p[3]>>

\* u32::next_power_of_two overflows: the result would be 2^32.
U32NextPowerOfTwoOverflows(n) == NextPowerOfTwo(U64From(n))[1] > 0

WithIoPoll(p) == [p EXCEPT !.flags = @ \cup {"IOPOLL"}]

\* sq_thread_idle is NoU32 for None.
WithSqPoll(p, sq_thread_idle) ==
    [p EXCEPT !.flags = @ \cup {"SQPOLL"},
              !.sq_thread_idle = IF sq_thread_idle = NoU32 THEN @ ELSE sq_thread_idle]

\* Mutant of WithSqAffinity: the flag is assigned, not united.
WithSqAffinity_Assign(p, sq_thread_cpu) ==
    [p EXCEPT !.flags = {"SQ_AFF"}, !.sq_thread_cpu = sq_thread_cpu]

WithSqAffinity(p, sq_thread_cpu) ==
    [p EXCEPT !.flags = @ \cup {"SQ_AFF"}, !.sq_thread_cpu = sq_thread_cpu]

WithSqSize(p, sq_size) == [p EXCEPT !.sq_entries = U32NextPowerOfTwo(sq_size)]

WithCqSize(p, cq_size) ==
    [p EXCEPT !.flags = @ \cup {"CQSIZE"}, !.cq_entries = U32NextPowerOfTwo(cq_size)]

WithAttachedWorkQueue(p, raw_fd) ==
    [p EXCEPT !.flags = @ \cup {"ATTACH_WQ"}, !.wq_fd = raw_fd]

WithDisabledRing(p) == [p EXCEPT !.flags = @ \cup {"R_DISABLED"}]
WithSubmitAll(p) == [p EXCEPT !.flags = @ \cup {"SUBMIT_ALL"}]
WithCooperativeTaskrun(p) ==
    [p EXCEPT !.flags = (@ \cup {"COOP_TASKRUN"}) \cup {"TASKRUN_FLAG"}]
WithSingleIssuer(p) == [p EXCEPT !.flags = @ \cup {"SINGLE_ISSUER"}]
WithDeferredTaskrun(p) == [p EXCEPT !.flags = @ \cup {"DEFER_TASKRUN"}]

\* The arguments the builders are called with.
ParamSizes == {U32Of(0), U32Of(1), U32Of(2), U32Of(3), U32Of(Limb - 1),
               <<Limb \div 2, 0>>, <<Limb \div 2, 1>>, U32Max}
ParamIdles == {NoU32, U32Of(1), U32Of(1000)}
ParamCpus == {U32Of(1), U32Of(7)}
ParamFds == {1, 5}

ParamsOthers == <<entries, mask, shift, overflow_checks, head0, tail0, instance,
                  built, written, counters, history, pc, local, last, p_held,
                  c_held>>

\* Params::new()
ParamsNew ==
    /\ params.call = ""
    /\ params' = [NoParams EXCEPT !.call = "new"]
    /\ UNCHANGED ParamsOthers

\* One more builder call on the Params of the chain, returning v.
Chain(call, arg, v) ==
    /\ params.call # ""
    /\ ~params.panicked
    /\ params.calls < MaxChain
    /\ params' = [call |-> call, arg |-> arg, calls |-> params.calls + 1,
                  panicked |-> FALSE, value |-> v]
    /\ UNCHANGED ParamsOthers

\* A builder call that panics: the chain ends without a Params.
ChainPanic(call, arg) ==
    /\ params.call # ""
    /\ ~params.panicked
    /\ params.calls < MaxChain
    /\ params' = [params EXCEPT !.call = call, !.arg = arg,
                                !.calls = @ + 1, !.panicked = TRUE]
    /\ UNCHANGED ParamsOthers

\* with_sq_size / with_cq_size: next_power_of_two panics on overflow in a
\* build with overflow checks.
ChainSize(call, n, v) ==
    IF overflow_checks /\ U32NextPowerOfTwoOverflows(n)
    THEN ChainPanic(call, n)
    ELSE Chain(call, n, v)

ParamsNext ==
    \/ ParamsNew
    \/ Chain("with_io_poll", NoU32, WithIoPoll(params.value))
    \/ \E i \in ParamIdles : Chain("with_sq_poll", i, WithSqPoll(params.value, i))
    \/ \E c \in ParamCpus : Chain("with_sq_affinity", c, WithSqAffinity(params.value, c))
    \/ \E n \in ParamSizes : ChainSize("with_sq_size", n, WithSqSize(params.value, n))
    \/ \E n \in ParamSizes : ChainSize("with_cq_size", n, WithCqSize(params.value, n))
    \/ \E f \in ParamFds :
          Chain("with_attached_work_queue", f, WithAttachedWorkQueue(params.value, f))
    \/ Chain("with_disabled_ring", NoU32, WithDisabledRing(params.value))
    \/ Chain("with_submit_all", NoU32, WithSubmitAll(params.value))
    \/ Chain("with_cooperative_taskrun", NoU32, WithCooperativeTaskrun(params.value))
    \/ Chain("with_single_issuer", NoU32, WithSingleIssuer(params.value))
    \/ Chain("with_deferred_taskrun", NoU32, WithDeferredTaskrun(params.value))

ParamsSpec == CtorInit /\ [][ParamsNext]_vars


\* a <= b on u32 values.
U32Le(a, b) == a[1] < b[1] \/ (a[1] = b[1] /\ a[2] <= b[2])
\* Half of a power of two above 1.
U32Half(p) ==
    IF p[1] > 1 THEN <<p[1] \div 2, 0>>
    ELSE IF p[1] = 1 THEN <<0, Limb \div 2>>
    ELSE <<0, p[2] \div 2>>
\* p is the smallest power of two that is at least n.
LeastPow2AtLeast(p, n) ==
    /\ IsPowerOfTwo(U64From(p))
    /\ U32Le(n, p)
    /\ p = U32Of(1) \/ ~U32Le(n, U32Half(p))
\* The latest call is with_sq_size or with_cq_size; the field it stores into.
SizeCalls == {"with_sq_size", "with_cq_size"}
StoredSize == IF params.call = "with_sq_size" THEN params.value.sq_entries
              ELSE params.value.cq_entries
\* The largest power of two of a u32, 2^31.
U32TopBit == <<Limb \div 2, 0>>

(***************************************************************************)
(* C28 as stated: for every u32 n, with_sq_size(n) and with_cq_size(n)     *)
(* return a Params whose sq_entries / cq_entries is the smallest power of  *)
(* two that is at least n, and with_cq_size also sets CQSIZE.              *)
(***************************************************************************)
C28_EveryU32Rounded ==
    params.call \in SizeCalls =>
        /\ ~params.panicked
        /\ LeastPow2AtLeast(StoredSize, params.arg)
        /\ params.call = "with_cq_size" => "CQSIZE" \in params.value.flags

(***************************************************************************)
(* C28 amended: for every n up to 2^31, with_sq_size(n) and                *)
(* with_cq_size(n) store the smallest power of two that is at least n      *)
(* (1 for 0); for n above 2^31 the call panics in a build with overflow    *)
(* checks and stores 0 in a build without; whenever with_cq_size returns,  *)
(* CQSIZE is set.                                                          *)
(***************************************************************************)
C28_RoundedUpToTopBit ==
    params.call \in SizeCalls =>
        /\ IF U32Le(params.arg, U32TopBit)
           THEN ~params.panicked /\ LeastPow2AtLeast(StoredSize, params.arg)
           ELSE IF overflow_checks
                THEN params.panicked
                ELSE ~params.panicked /\ StoredSize = U32Zero
        /\ (params.call = "with_cq_size" /\ ~params.panicked)
               => "CQSIZE" \in params.value.flags

\* with_cq_size(3) stored 4 and set CQSIZE after an earlier builder call.
C28_Witness ==
    /\ params.call = "with_cq_size"
    /\ params.calls > 1
    /\ params.arg = U32Of(3)
    /\ params.value.cq_entries = U32Of(4)
    /\ "CQSIZE" \in params.value.flags


\* The flags a builder sets, and the field it names.
OwnFlags(call) ==
    CASE call = "with_io_poll" -> {"IOPOLL"}
      [] call = "with_sq_poll" -> {"SQPOLL"}
      [] call = "with_sq_affinity" -> {"SQ_AFF"}
      [] call = "with_sq_size" -> {}
      [] call = "with_cq_size" -> {"CQSIZE"}
      [] call = "with_attached_work_queue" -> {"ATTACH_WQ"}
      [] call = "with_disabled_ring" -> {"R_DISABLED"}
      [] call = "with_submit_all" -> {"SUBMIT_ALL"}
      [] call = "with_cooperative_taskrun" -> {"COOP_TASKRUN", "TASKRUN_FLAG"}
      [] call = "with_single_issuer" -> {"SINGLE_ISSUER"}
      [] call = "with_deferred_taskrun" -> {"DEFER_TASKRUN"}
NamedField(call) ==
    CASE call = "with_sq_poll" -> {"sq_thread_idle"}
      [] call = "with_sq_affinity" -> {"sq_thread_cpu"}
      [] call = "with_sq_size" -> {"sq_entries"}
      [] call = "with_cq_size" -> {"cq_entries"}
      [] call = "with_attached_work_queue" -> {"wq_fd"}
      [] OTHER -> {}
ParamFields == {"sq_entries", "cq_entries", "sq_thread_cpu", "sq_thread_idle", "wq_fd"}

\* A step in which new() or a builder returns a Params.
C29_Returns == params' # params /\ ~params'.panicked

(***************************************************************************)
(* C29: Params::new() has no flag set and every field zero.  Each builder  *)
(* returns a Params that has its own flag or flags set, keeps every flag   *)
(* set before, and differs in no field other than the one it names;        *)
(* with_sq_poll(None) sets SQPOLL and leaves sq_thread_idle as it was.     *)
(***************************************************************************)
C29_BuildersFrame ==
    [][C29_Returns =>
         IF params'.call = "new"
         THEN /\ params'.value.flags = {}
              /\ \A f \in ParamFields \ {"wq_fd"} : params'.value[f] = U32Zero
              /\ params'.value.wq_fd = 0
         ELSE /\ OwnFlags(params'.call) \subseteq params'.value.flags
              /\ params.value.flags \subseteq params'.value.flags
              /\ \A f \in ParamFields \ NamedField(params'.call) :
                    params'.value[f] = params.value[f]
              /\ (params'.call = "with_sq_poll" /\ params'.arg = NoU32)
                    => /\ "SQPOLL" \in params'.value.flags
                       /\ params'.value.sq_thread_idle = params.value.sq_thread_idle
    ]_vars

\* with_sq_poll(None) returned after with_sq_poll(Some(1000)) and another
\* builder: the idle time and the earlier flag are still there.
C29_Witness ==
    /\ params.call = "with_sq_poll"
    /\ params.arg = NoU32
    /\ params.calls = 3
    /\ params.value.sq_thread_idle = U32Of(1000)
    /\ {"SQ_AFF", "SQPOLL"} \subseteq params.value.flags
    /\ params.value.sq_thread_cpu = U32Of(7)


(***************************************************************************)
(* C30: for every index reserve is about to hand out, on either role and   *)
(* in normal and big mode, the slot position (index & mask) << shift is    *)
(* below entries.len(), so no reserve fails with an out-of-bounds access.  *)
(***************************************************************************)
C30_SlotInBounds ==
    \A t \in Threads :
        /\ pc[t] = "p_reserve_cas"
              => InBounds(SlotOf(local[t].tail, mask, shift), Len(entries))
        /\ pc[t] = "c_reserve_cas"
              => InBounds(SlotOf(local[t].head, mask, shift), Len(entries))


(***************************************************************************)
(* Non-blocking calls.                                                     *)
(***************************************************************************)
\* The positions inside a call, and the moves a thread's position can make:
\* reserve is load, load, compare_exchange; commit is load, fetch_add, or
\* the load alone when it returns CommitOutOfOrder.
InCall == {"p_reserve_tail", "p_reserve_cas", "p_commit_add",
           "c_reserve_tail", "c_reserve_cas", "c_commit_add"}
CallMoves ==
    {<<"idle", "p_reserve_tail">>, <<"p_reserve_tail", "p_reserve_cas">>,
     <<"idle", "p_commit_add">>,
     <<"idle", "c_reserve_tail">>, <<"c_reserve_tail", "c_reserve_cas">>,
     <<"idle", "c_commit_add">>, <<"idle", "idle">>}
    \cup {<<at, "idle">> : at \in InCall}
    \cup {<<at, "panicked">> : at \in {"p_reserve_cas", "c_reserve_cas"}}

\* A thread inside a call can take its next step whatever the others do.
C31_NeverWaits ==
    /\ \A t \in Producers : pc[t] \in InCall => ENABLED ProducerStep(t)
    /\ \A t \in Consumers : pc[t] \in InCall => ENABLED ConsumerStep(t)

\* A step of a thread moves it forward in its call: a call is over after at
\* most three steps of its thread.
C31_FixedSteps ==
    \A t \in Threads : StepOf(t) => <<pc[t], pc'[t]>> \in CallMoves

\* Thread t ends a reserve at the compare_exchange without a handle.
C31_EndsWithout(t, at, results) ==
    /\ pc[t] = at
    /\ pc'[t] # at
    /\ last'.result \in results

\* A reserve of another thread handed out the index t had loaded.
C31_Overtaken(granted, index) ==
    \E i \in 1..Len(granted) : granted[i].index = index

\* A reserve returns None from a failed compare_exchange only when another
\* reserve on the instance succeeded since its load of the shadow counter.
C31_LostRaceOnly ==
    /\ \A t \in Producers : C31_EndsWithout(t, "p_reserve_cas", {"None"})
            => C31_Overtaken(p_granted, local[t].tail)
    /\ \A t \in Consumers : C31_EndsWithout(t, "c_reserve_cas", {"None"})
            => C31_Overtaken(c_granted, local[t].head)

\* A reserve that found space ends without a handle, in whatever way, only
\* when another reserve on the instance succeeded since its load.
C31_OneProgresses ==
    /\ \A t \in Producers : C31_EndsWithout(t, "p_reserve_cas", {"None", "panic"})
            => C31_Overtaken(p_granted, local[t].tail)
    /\ \A t \in Consumers : C31_EndsWithout(t, "c_reserve_cas", {"None", "panic"})
            => C31_Overtaken(c_granted, local[t].head)

(***************************************************************************)
(* C31: reserve and commit never wait on another thread, each call is over *)
(* after a fixed number of its own atomic steps; a reserve returns no      *)
(* handle from a failed compare-and-swap only when another thread's        *)
(* reserve on the instance succeeded since its load of the shadow counter; *)
(* so of the reservers that find space available at least one gets a       *)
(* handle.                                                                 *)
(***************************************************************************)
C31_NonBlocking ==
    [][C31_NeverWaits /\ C31_FixedSteps /\ C31_LostRaceOnly /\ C31_OneProgresses]_vars


(***************************************************************************)
(* An instance constructed late: an agent has moved head and tail before   *)
(* a constructor is called over the same entries, head and tail; threads   *)
(* p2 and c2 are the callers of the new instance.                          *)
(***************************************************************************)
LateInit ==
    /\ entries \in {Slice(n) : n \in Lens}
    /\ mask = Len(entries) - 1
    /\ shift \in {0, 1}
    /\ overflow_checks \in BOOLEAN
    /\ head0 \in HeadStarts
    /\ tail0 = head0
    /\ instance = OnePerThread
    /\ head = head0
    /\ tail = tail0
    /\ uncommitted_tail = tail
    /\ uncommitted_head = head
    /\ uncommitted_tail_b = NoU32
    /\ uncommitted_head_b = NoU32
    /\ built = NoBuilt
    /\ written = {}
    /\ params = NoParams
    /\ pc = [t \in Threads |-> "idle"]
    /\ local = [t \in Threads |-> NoLocals]
    /\ last = NoCall
    /\ p_held = {}
    /\ c_held = {}
    /\ p_granted = <<>>
    /\ c_granted = <<>>
    /\ p_committed = <<>>
    /\ c_committed = <<>>

\* The new instance exists, as a Producer or as a Consumer.
LateProducer == built.result = "Ok" /\ IsProducer(built.call)
LateConsumer == built.result = "Ok" /\ ~IsProducer(built.call)

\* A constructor is called over the entries of the ring, with the right mask
\* or a wrong one, until one call returns Ok.
LateConstruct ==
    /\ built.result # "Ok"
    /\ \E call \in Constructors, m \in {mask, mask + 1} :
          /\ IsBig(call) <=> shift = 1
          /\ Construct(call, U64From(U32Of(Len(entries))), U32Of(m))

LateNext ==
    \/ ~LateProducer /\ AgentAdvanceTail
    \/ ~LateConsumer /\ AgentAdvanceHead
    \/ LateConstruct
    \/ LateProducer /\ ProducerStep("p2")
    \/ LateConsumer /\ ConsumerStep("c2")

LateSpec == LateInit /\ [][LateNext]_vars

\* A constructor call leaves head and tail alone, and on Ok the shadow
\* counter of the new instance is the tail (Producer) or head (Consumer) of
\* that moment.
C32_ConstructStep ==
    built' # built =>
        /\ head' = head
        /\ tail' = tail
        /\ built'.result = "Ok" =>
              IF IsProducer(built'.call)
              THEN uncommitted_tail_b' = tail /\ built'.value = tail
              ELSE uncommitted_head_b' = head /\ built'.value = head

\* The first handle of the new instance has the index its shadow counter was
\* created with.
C32_FirstHandle ==
    /\ Len(p_granted) > 0 => p_granted[1].index = built.value
    /\ Len(c_granted) > 0 => c_granted[1].index = built.value

(***************************************************************************)
(* C32: a constructor call, Ok or Err, writes neither head nor tail; on Ok *)
(* the shadow counter is the value the shadowed counter has at that moment *)
(* (tail for a Producer, head for a Consumer), and the first handle the    *)
(* new instance hands out has that value as its index.                     *)
(***************************************************************************)
C32_ConstructionReadsOnly == [][C32_ConstructStep]_vars /\ []C32_FirstHandle

\* A Consumer constructed after the agent moved head and tail has handed out
\* its first handle, of index head0 + 1.
C32_Witness ==
    /\ LateConsumer
    /\ Len(c_granted) > 0
    /\ c_granted[1].index = WrappingAdd(head0, 1)
    /\ built.value = WrappingAdd(head0, 1)

====
